---- MODULE Spec2Model ----
(***************************************************************************)
(* A model of @inkrypt/crypto: the AEAD layer (aead.ts), the base64 codec  *)
(* (base64.ts), random identifiers (random.ts), hash, and the signer.      *)
(* Each component has its own specification over its own variables.        *)
(* Byte arrays (Uint8Array) are sequences of integers 0..255,              *)
(* JavaScript strings are sequences of UTF-16 code units.  Each exported   *)
(* function is an operator that returns what the call returns or throws,   *)
(* together with the sequence of primitive operations the call executed.   *)
(***************************************************************************)
EXTENDS Integers, Sequences, FiniteSets, Bags, TLC

VARIABLES encCall, encRes, decCall, decRes,
          signCall, signRes, verifyCall, verifyRes,
          idCall, codecCall, hashCalls,
          sessions, sockets, env, lastCall

aeadVars == <<encCall, encRes, decCall, decRes>>
signerVars == <<signCall, signRes, verifyCall, verifyRes>>
idVars == <<idCall>>
codecVars == <<codecCall>>
hashVars == <<hashCalls>>
relayVars == <<sessions, sockets, env, lastCall>>

vars == <<aeadVars, signerVars, idVars, codecVars, hashVars, relayVars>>

(***************************************************************************)
(* Program constants.                                                      *)
(***************************************************************************)
KEY_SIZE == 32
NONCE_SIZE == 24
ROBUSTNESS_TAG_SIZE == 32
\* length of the Poly1305 tag the cipher appends to its output
NATIVE_TAG_SIZE == 16

(***************************************************************************)
(* Bounds of the model.                                                    *)
(***************************************************************************)
\* longest message, in UTF-16 code units (text) or bytes (binary)
MaxMsgLen == 1
\* longest associated-data string, in UTF-16 code units
MaxAadLen == 1

(***************************************************************************)
(* Sequence helpers.                                                       *)
(***************************************************************************)
Slice(s, from, to) ==
    \* Uint8Array.prototype.slice(from, to) with 0-based, end-exclusive
    \* indices clamped to the array
    LET lo == IF from > Len(s) THEN Len(s) ELSE from
        hi == IF to > Len(s) THEN Len(s) ELSE to
    IN  IF hi <= lo THEN <<>> ELSE SubSeq(s, lo + 1, hi)

Fill(n, v) == [i \in 1..n |-> v]

SeqsUpTo(S, n) == UNION {[1..k -> S] : k \in 0..n}

RECURSIVE Concat(_, _, _)
Concat(parts, lo, hi) ==
    \* parts[lo] \o ... \o parts[hi]
    IF lo > hi THEN <<>>
    ELSE IF lo = hi THEN parts[lo]
    ELSE LET mid == (lo + hi) \div 2
         IN  Concat(parts, lo, mid) \o Concat(parts, mid + 1, hi)

RECURSIVE BitXor(_, _)
BitXor(a, b) ==
    IF a = 0 THEN b
    ELSE IF b = 0 THEN a
    ELSE (((a % 2) + (b % 2)) % 2) + 2 * BitXor(a \div 2, b \div 2)

(***************************************************************************)
(* TextEncoder / TextDecoder (UTF-8, the platform defaults).               *)
(***************************************************************************)
IsHigh(u) == u >= 55296 /\ u <= 56319
IsLow(u) == u >= 56320 /\ u <= 57343

Utf8Bytes(cp) ==
    IF cp < 128 THEN <<cp>>
    ELSE IF cp < 2048 THEN <<192 + (cp \div 64), 128 + (cp % 64)>>
    ELSE IF cp < 65536
         THEN <<224 + (cp \div 4096), 128 + ((cp \div 64) % 64), 128 + (cp % 64)>>
    ELSE <<240 + (cp \div 262144), 128 + ((cp \div 4096) % 64),
           128 + ((cp \div 64) % 64), 128 + (cp % 64)>>

EncodeUnit(s, i) ==
    \* the bytes code unit i contributes: a surrogate pair is one code point
    \* (encoded at its first unit), a lone surrogate is replaced by U+FFFD
    IF IsHigh(s[i]) /\ i < Len(s) /\ IsLow(s[i + 1])
    THEN Utf8Bytes(65536 + (s[i] - 55296) * 1024 + (s[i + 1] - 56320))
    ELSE IF IsLow(s[i]) /\ i > 1 /\ IsHigh(s[i - 1]) THEN <<>>
    ELSE IF IsHigh(s[i]) \/ IsLow(s[i]) THEN Utf8Bytes(65533)
    ELSE Utf8Bytes(s[i])

TextEncode(s) ==
    \* new TextEncoder().encode(s)
    Concat([i \in 1..Len(s) |-> EncodeUnit(s, i)], 1, Len(s))

Utf16Units(cp) ==
    IF cp < 65536 THEN <<cp>>
    ELSE <<55296 + ((cp - 65536) \div 1024), 56320 + ((cp - 65536) % 1024)>>

RECURSIVE DecodeFrom(_, _, _, _, _, _, _)
DecodeFrom(b, i, cp, seen, needed, lower, upper) ==
    \* the UTF-8 decoder of the Encoding standard, error mode "replacement"
    IF i > Len(b) THEN (IF needed # 0 THEN <<65533>> ELSE <<>>)
    ELSE LET x == b[i] IN
      IF needed = 0 THEN
        IF x <= 127 THEN <<x>> \o DecodeFrom(b, i + 1, 0, 0, 0, 128, 191)
        ELSE IF x >= 194 /\ x <= 223
             THEN DecodeFrom(b, i + 1, x % 32, 0, 1, 128, 191)
        ELSE IF x >= 224 /\ x <= 239
             THEN DecodeFrom(b, i + 1, x % 16, 0, 2,
                             IF x = 224 THEN 160 ELSE 128,
                             IF x = 237 THEN 159 ELSE 191)
        ELSE IF x >= 240 /\ x <= 244
             THEN DecodeFrom(b, i + 1, x % 8, 0, 3,
                             IF x = 240 THEN 144 ELSE 128,
                             IF x = 244 THEN 143 ELSE 191)
        ELSE <<65533>> \o DecodeFrom(b, i + 1, 0, 0, 0, 128, 191)
      ELSE IF x < lower \/ x > upper
           \* the offending byte is processed again as a first byte
           THEN <<65533>> \o DecodeFrom(b, i, 0, 0, 0, 128, 191)
      ELSE IF seen + 1 = needed
           THEN Utf16Units((cp * 64) + (x % 64))
                \o DecodeFrom(b, i + 1, 0, 0, 0, 128, 191)
      ELSE DecodeFrom(b, i + 1, (cp * 64) + (x % 64), seen + 1, needed, 128, 191)

TextDecode(b) ==
    \* new TextDecoder().decode: ignoreBOM is false, so a leading byte order
    \* mark EF BB BF is consumed and not part of the returned string
    LET start == IF Len(b) >= 3 /\ b[1] = 239 /\ b[2] = 187 /\ b[3] = 191
                 THEN 4 ELSE 1
    IN  DecodeFrom(b, start, 0, 0, 0, 128, 191)

(***************************************************************************)
(* base64.ts                                                               *)
(***************************************************************************)
B64Char_Standard(i) ==
    \* the standard alphabet, with + and / for the last two characters
    IF i < 26 THEN 65 + i
    ELSE IF i < 52 THEN 97 + (i - 26)
    ELSE IF i < 62 THEN 48 + (i - 52)
    ELSE IF i = 62 THEN 43
    ELSE 47

B64Char(i) ==
    \* the URL-safe alphabet A-Z a-z 0-9 - _ as code units
    IF i < 26 THEN 65 + i
    ELSE IF i < 52 THEN 97 + (i - 26)
    ELSE IF i < 62 THEN 48 + (i - 52)
    ELSE IF i = 62 THEN 45
    ELSE 95

B64Group(b, i) ==
    \* the characters of the group of up to three bytes that starts at b[i];
    \* the padding of a short last group is left out
    LET left == Len(b) - i + 1 IN
    IF left = 1
    THEN <<B64Char(b[i] \div 4), B64Char((b[i] % 4) * 16)>>
    ELSE IF left = 2
         THEN <<B64Char(b[i] \div 4),
                B64Char(((b[i] % 4) * 16) + (b[i + 1] \div 16)),
                B64Char((b[i + 1] % 16) * 4)>>
    ELSE <<B64Char(b[i] \div 4),
           B64Char(((b[i] % 4) * 16) + (b[i + 1] \div 16)),
           B64Char(((b[i + 1] % 16) * 4) + (b[i + 2] \div 64)),
           B64Char(b[i + 2] % 64)>>

toBase64Url(u8a) ==
    \* fromUint8Array(u8a, true)
    LET groups == (Len(u8a) + 2) \div 3
    IN  Concat([g \in 1..groups |-> B64Group(u8a, (3 * g) - 2)], 1, groups)

(***************************************************************************)
(* Library primitives (@noble/hashes, @noble/ciphers).  Their internals    *)
(* are not part of this repository; each is a deterministic function of    *)
(* exactly the inputs the real primitive depends on.  Digests are three    *)
(* polynomial residues of the absorbed input, so distinct inputs of the    *)
(* model give distinct digests, as the MAC's collision resistance gives.   *)
(***************************************************************************)
RECURSIVE PowMod(_, _, _)
PowMod(g, e, p) ==
    IF e = 0 THEN 1
    ELSE LET h == PowMod(g, e \div 2, p)
         IN  IF e % 2 = 0 THEN (h * h) % p ELSE (((h * h) % p) * g) % p

DigestPrimes == <<32749, 32719, 32717>>
DigestBases == <<257, 263, 269>>

\* DigestBases[q] ^ i modulo DigestPrimes[q], for every position i of an input
Weights ==
    [q \in 1..3 |-> [i \in 1..1024 |-> PowMod(DigestBases[q], i, DigestPrimes[q])]]

Absorb(d, q) ==
    \* the residue modulo DigestPrimes[q] of the polynomial in DigestBases[q]
    \* whose coefficients are d[1] + 1, ..., d[n] + 1 (the sum of the terms
    \* is the cardinality of the bag that holds term i as the count of i)
    BagCardinality([i \in 1..Len(d) |->
                       (((d[i] + 1) * Weights[q][i]) % DigestPrimes[q]) + 1])
        % DigestPrimes[q]

Expand(h, dkLen) ==
    [j \in 1..dkLen |->
        LET q == ((j - 1) % 3) + 1
            r == (j - 1) \div 3
        IN  IF r = 0 THEN h[q] % 256
            ELSE IF r = 1 THEN h[q] \div 256
            ELSE ((h[q] * r) + j) % 256]

Digest(input, dkLen) ==
    Expand([q \in 1..3 |-> Absorb(<<Len(input)>> \o input, q)], dkLen)

\* TextEncoder.encode('RobustnessTag-v1')
Personalization ==
    <<82, 111, 98, 117, 115, 116, 110, 101, 115, 115, 84, 97, 103, 45, 118, 49>>

kmac256(key, data, dkLen, personalization) ==
    Digest(personalization \o <<Len(key)>> \o key \o data, dkLen)

equalBytes_SkipLast(a, b) ==
    \* the comparison loop stops one byte early
    Len(a) = Len(b) /\ \A i \in 1..(Len(a) - 1) : a[i] = b[i]

equalBytes_NoLength(a, b) ==
    \* the lengths are not compared: the loop runs over the first array
    \A i \in 1..Len(a) : i <= Len(b) /\ a[i] = b[i]

equalBytes(a, b) ==
    Len(a) = Len(b) /\ \A i \in 1..Len(a) : a[i] = b[i]

InvalidKeyLength == "xchacha20poly1305: invalid key length"
InvalidNonceLength == "xchacha20poly1305: invalid nonce length"
CiphertextTooShort == "xchacha20poly1305: ciphertext shorter than the tag"
InvalidTag == "xchacha20poly1305: invalid tag"

xchacha20poly1305_AnyNonce(key, nonce, aadBytes) ==
    \* the nonce length is not validated
    IF Len(key) # KEY_SIZE THEN InvalidKeyLength ELSE ""

xchacha20poly1305(key, nonce, aadBytes) ==
    \* the constructor validates its arguments; "" when it returns a cipher
    IF Len(key) # KEY_SIZE THEN InvalidKeyLength
    ELSE IF Len(nonce) # NONCE_SIZE THEN InvalidNonceLength
    ELSE ""

KeyStream(key, nonce, i) ==
    (Absorb(key \o nonce, 1) + (131 * i)) % 256

XorStream(key, nonce, data) ==
    [i \in 1..Len(data) |-> BitXor(data[i], KeyStream(key, nonce, i))]

NativeTag(key, nonce, aadBytes, body) ==
    Digest(<<1>> \o key \o nonce \o <<Len(aadBytes)>> \o aadBytes \o body,
           NATIVE_TAG_SIZE)

CipherEncrypt(key, nonce, aadBytes, plaintext) ==
    \* cipher.encrypt: the encrypted bytes followed by the native tag
    LET body == XorStream(key, nonce, plaintext)
    IN  body \o NativeTag(key, nonce, aadBytes, body)

CipherDecrypt(key, nonce, aadBytes, data) ==
    \* cipher.decrypt: the plaintext bytes, or the error it throws
    IF Len(data) < NATIVE_TAG_SIZE
    THEN [threw |-> CiphertextTooShort, bytes |-> <<>>]
    ELSE LET body == Slice(data, 0, Len(data) - NATIVE_TAG_SIZE)
             tag == Slice(data, Len(data) - NATIVE_TAG_SIZE, Len(data))
         IN  IF equalBytes(tag, NativeTag(key, nonce, aadBytes, body))
             THEN [threw |-> "", bytes |-> XorStream(key, nonce, body)]
             ELSE [threw |-> InvalidTag, bytes |-> <<>>]

(***************************************************************************)
(* random.ts                                                               *)
(***************************************************************************)
\* the byte values the model lets the generator fill an array with
RandomFills == {17, 34}

getRandomBytes(bytesLength) ==
    \* the set of arrays one call may return
    {Fill(bytesLength, v) : v \in RandomFills}

(***************************************************************************)
(* aead.ts                                                                 *)
(***************************************************************************)
\* an omitted optional argument
Undefined == <<-1>>

KeySizeError == "32-byte key is required for XChaCha20-Poly1305"
TagMismatchError == "AEAD robustness tag mismatch"

MessageBytes(message) ==
    IF message.isString THEN TextEncode(message.data) ELSE message.data

TagInput_NoAad(nonce, ciphertext, additionalData) ==
    \* the additional data is left out of the tag input
    toBase64Url(nonce) \o toBase64Url(ciphertext)

TagInput_NoCiphertext(nonce, ciphertext, additionalData) ==
    \* the AEAD ciphertext is left out of the tag input
    toBase64Url(nonce) \o additionalData

TagInput(nonce, ciphertext, additionalData) ==
    toBase64Url(nonce) \o toBase64Url(ciphertext) \o additionalData

RobustnessTag(key, nonce, ciphertext, additionalData) ==
    kmac256(key, TextEncode(TagInput(nonce, ciphertext, additionalData)),
            ROBUSTNESS_TAG_SIZE, Personalization)

EncThrow(error, ops) ==
    [threw |-> error, ciphertext |-> <<>>, key |-> <<>>, nonce |-> <<>>,
     ops |-> ops]

EncOk_VersionByte(robustnessTag, ciphertext, key, nonce, drawn) ==
    \* a format version byte is put in front of the robustness tag
    [threw |-> "",
     ciphertext |-> <<1>> \o robustnessTag \o ciphertext,
     key |-> key,
     nonce |-> nonce,
     ops |-> drawn \o <<"xchacha20poly1305", "encrypt", "kmac256">>]

EncOk(robustnessTag, ciphertext, key, nonce, drawn) ==
    [threw |-> "",
     ciphertext |-> robustnessTag \o ciphertext,
     key |-> key,
     nonce |-> nonce,
     ops |-> drawn \o <<"xchacha20poly1305", "encrypt", "kmac256">>]

Drawn(key, nonce) ==
    \* the getRandomBytes calls of lines 36 and 37
    (IF key = Undefined THEN <<"getRandomBytes">> ELSE <<>>)
    \o (IF nonce = Undefined THEN <<"getRandomBytes">> ELSE <<>>)

encryptMessage_TooShortOnly(message, additionalData, key, nonce, randomKey, randomNonce) ==
    \* the key check is < KEY_SIZE where the code has !== KEY_SIZE
    LET encryptionKey == IF key = Undefined THEN randomKey ELSE key
        encryptionNonce == IF nonce = Undefined THEN randomNonce ELSE nonce
        additionalDataBytes == TextEncode(additionalData)
        cipher == xchacha20poly1305(encryptionKey, encryptionNonce,
                                    additionalDataBytes)
        ciphertext == CipherEncrypt(encryptionKey, encryptionNonce,
                                    additionalDataBytes, MessageBytes(message))
    IN  IF Len(encryptionKey) < KEY_SIZE
        THEN EncThrow(KeySizeError, Drawn(key, nonce))
        ELSE IF cipher # ""
             THEN EncThrow(cipher, Drawn(key, nonce) \o <<"xchacha20poly1305">>)
        ELSE EncOk(RobustnessTag(encryptionKey, encryptionNonce, ciphertext,
                                 additionalData),
                   ciphertext, encryptionKey, encryptionNonce, Drawn(key, nonce))

encryptMessage_ReturnsDrawn(message, additionalData, key, nonce, randomKey, randomNonce) ==
    \* the result carries freshly drawn values where the code returns the
    \* key and nonce it encrypted with
    LET encryptionKey == IF key = Undefined THEN randomKey ELSE key
        encryptionNonce == IF nonce = Undefined THEN randomNonce ELSE nonce
        additionalDataBytes == TextEncode(additionalData)
        cipher == xchacha20poly1305(encryptionKey, encryptionNonce,
                                    additionalDataBytes)
        ciphertext == CipherEncrypt(encryptionKey, encryptionNonce,
                                    additionalDataBytes, MessageBytes(message))
    IN  IF Len(encryptionKey) # KEY_SIZE
        THEN EncThrow(KeySizeError, Drawn(key, nonce))
        ELSE IF cipher # ""
             THEN EncThrow(cipher, Drawn(key, nonce) \o <<"xchacha20poly1305">>)
        ELSE EncOk(RobustnessTag(encryptionKey, encryptionNonce, ciphertext,
                                 additionalData),
                   ciphertext, randomKey, randomNonce, Drawn(key, nonce))

encryptMessage(message, additionalData, key, nonce, randomKey, randomNonce) ==
    LET encryptionKey == IF key = Undefined THEN randomKey ELSE key
        encryptionNonce == IF nonce = Undefined THEN randomNonce ELSE nonce
        drawn == Drawn(key, nonce)
        additionalDataBytes == TextEncode(additionalData)
        cipher == xchacha20poly1305(encryptionKey, encryptionNonce,
                                    additionalDataBytes)
        ciphertext == CipherEncrypt(encryptionKey, encryptionNonce,
                                    additionalDataBytes, MessageBytes(message))
        robustnessTag == RobustnessTag(encryptionKey, encryptionNonce,
                                       ciphertext, additionalData)
    IN  IF Len(encryptionKey) # KEY_SIZE THEN EncThrow(KeySizeError, drawn)
        ELSE IF cipher # ""
             THEN EncThrow(cipher, drawn \o <<"xchacha20poly1305">>)
        ELSE EncOk(robustnessTag, ciphertext, encryptionKey, encryptionNonce, drawn)

DecThrow(error, ops) == [threw |-> error, plaintext |-> <<>>, ops |-> ops]

decryptMessage_CipherFirst(combinedCiphertext, additionalData, key, nonce) ==
    \* the cipher runs before the robustness tag is compared
    LET additionalDataBytes == TextEncode(additionalData)
        robustnessTag == Slice(combinedCiphertext, 0, ROBUSTNESS_TAG_SIZE)
        ciphertext == Slice(combinedCiphertext, ROBUSTNESS_TAG_SIZE,
                            Len(combinedCiphertext))
        expectedTag == RobustnessTag(key, nonce, ciphertext, additionalData)
        cipher == xchacha20poly1305(key, nonce, additionalDataBytes)
        decrypted == CipherDecrypt(key, nonce, additionalDataBytes, ciphertext)
    IN  IF cipher # "" THEN DecThrow(cipher, <<"xchacha20poly1305">>)
        ELSE IF decrypted.threw # ""
             THEN DecThrow(decrypted.threw, <<"xchacha20poly1305", "decrypt">>)
        ELSE IF ~equalBytes(robustnessTag, expectedTag)
             THEN DecThrow(TagMismatchError,
                           <<"xchacha20poly1305", "decrypt", "kmac256", "equalBytes">>)
        ELSE [threw |-> "",
              plaintext |-> TextDecode(decrypted.bytes),
              ops |-> <<"xchacha20poly1305", "decrypt", "kmac256", "equalBytes">>]

decryptMessage_NoTagCheck(combinedCiphertext, additionalData, key, nonce) ==
    \* the result of the tag comparison is not acted on
    LET additionalDataBytes == TextEncode(additionalData)
        ciphertext == Slice(combinedCiphertext, ROBUSTNESS_TAG_SIZE,
                            Len(combinedCiphertext))
        cipher == xchacha20poly1305(key, nonce, additionalDataBytes)
        decrypted == CipherDecrypt(key, nonce, additionalDataBytes, ciphertext)
    IN  IF cipher # ""
        THEN DecThrow(cipher, <<"kmac256", "equalBytes", "xchacha20poly1305">>)
        ELSE IF decrypted.threw # ""
             THEN DecThrow(decrypted.threw,
                           <<"kmac256", "equalBytes", "xchacha20poly1305", "decrypt">>)
        ELSE [threw |-> "",
              plaintext |-> TextDecode(decrypted.bytes),
              ops |-> <<"kmac256", "equalBytes", "xchacha20poly1305", "decrypt">>]

decryptMessage_OneError(combinedCiphertext, additionalData, key, nonce) ==
    \* the cipher's errors are caught and reported as a tag mismatch
    LET additionalDataBytes == TextEncode(additionalData)
        robustnessTag == Slice(combinedCiphertext, 0, ROBUSTNESS_TAG_SIZE)
        ciphertext == Slice(combinedCiphertext, ROBUSTNESS_TAG_SIZE,
                            Len(combinedCiphertext))
        expectedTag == RobustnessTag(key, nonce, ciphertext, additionalData)
        cipher == xchacha20poly1305(key, nonce, additionalDataBytes)
        decrypted == CipherDecrypt(key, nonce, additionalDataBytes, ciphertext)
    IN  IF ~equalBytes(robustnessTag, expectedTag)
        THEN DecThrow(TagMismatchError, <<"kmac256", "equalBytes">>)
        ELSE IF cipher # ""
             THEN DecThrow(TagMismatchError,
                           <<"kmac256", "equalBytes", "xchacha20poly1305">>)
        ELSE IF decrypted.threw # ""
             THEN DecThrow(TagMismatchError,
                           <<"kmac256", "equalBytes", "xchacha20poly1305", "decrypt">>)
        ELSE [threw |-> "",
              plaintext |-> TextDecode(decrypted.bytes),
              ops |-> <<"kmac256", "equalBytes", "xchacha20poly1305", "decrypt">>]

decryptMessage(combinedCiphertext, additionalData, key, nonce) ==
    LET additionalDataBytes == TextEncode(additionalData)
        robustnessTag == Slice(combinedCiphertext, 0, ROBUSTNESS_TAG_SIZE)
        ciphertext == Slice(combinedCiphertext, ROBUSTNESS_TAG_SIZE,
                            Len(combinedCiphertext))
        expectedTag == RobustnessTag(key, nonce, ciphertext, additionalData)
        tagMatch == equalBytes(robustnessTag, expectedTag)
        cipher == xchacha20poly1305(key, nonce, additionalDataBytes)
        decrypted == CipherDecrypt(key, nonce, additionalDataBytes, ciphertext)
    IN  IF ~tagMatch
        THEN DecThrow(TagMismatchError, <<"kmac256", "equalBytes">>)
        ELSE IF cipher # ""
             THEN DecThrow(cipher, <<"kmac256", "equalBytes", "xchacha20poly1305">>)
        ELSE IF decrypted.threw # ""
             THEN DecThrow(decrypted.threw,
                           <<"kmac256", "equalBytes", "xchacha20poly1305", "decrypt">>)
        ELSE [threw |-> "",
              plaintext |-> TextDecode(decrypted.bytes),
              ops |-> <<"kmac256", "equalBytes", "xchacha20poly1305", "decrypt">>]

(***************************************************************************)
(* The inputs the model draws.                                             *)
(***************************************************************************)
\* "a" and U+FEFF
MsgUnits == {97, 65279}
AadUnits == {97}

\* U+1F600 as a surrogate pair, and a high surrogate on its own
SurrogateMessages == {<<55357, 56832>>, <<55357>>}
\* binary messages: empty, and one byte that is not valid UTF-8
BinaryMessages == {<<>>, <<255>>}

Messages ==
    {[isString |-> TRUE, data |-> d] :
        d \in SeqsUpTo(MsgUnits, MaxMsgLen) \cup SurrogateMessages}
    \cup {[isString |-> FALSE, data |-> d] : d \in BinaryMessages}

AADs == SeqsUpTo(AadUnits, MaxAadLen)

SuppliedKeys == {Fill(KEY_SIZE, 51), Fill(KEY_SIZE - 16, 51), Fill(KEY_SIZE + 1, 51)}
SuppliedNonces == {Fill(NONCE_SIZE, 68), Fill(NONCE_SIZE - 12, 68)}
OtherKey == Fill(KEY_SIZE, 85)
OtherNonce == Fill(NONCE_SIZE, 102)

FlipBit(s, i, b) == [s EXCEPT ![i] = BitXor(@, 2 ^ b)]

TagFlips == {<<1, 0>>, <<1, 7>>, <<ROBUSTNESS_TAG_SIZE, 0>>, <<ROBUSTNESS_TAG_SIZE, 7>>}

Reseal(sealed, additionalData, key, nonce) ==
    \* a sender that holds the key wraps a damaged AEAD ciphertext in a
    \* freshly computed robustness tag
    LET damaged == FlipBit(Slice(sealed, ROBUSTNESS_TAG_SIZE, Len(sealed)), 1, 0)
    IN  RobustnessTag(key, nonce, damaged, additionalData) \o damaged

Deliveries(sealed, additionalData, key, nonce) ==
    \* what may reach decryptMessage in place of the sealed message
    {sealed}
    \cup {FlipBit(sealed, f[1], f[2]) : f \in TagFlips}
    \cup {FlipBit(sealed, ROBUSTNESS_TAG_SIZE + 1, 0), FlipBit(sealed, Len(sealed), 7)}
    \cup {Slice(sealed, 0, n) : n \in {0, ROBUSTNESS_TAG_SIZE - 1, ROBUSTNESS_TAG_SIZE}}
    \cup {Reseal(sealed, additionalData, key, nonce)}

BoundaryShifts(call, res) ==
    \* the AEAD ciphertext cut after a multiple of three bytes, with the
    \* base64 characters of the bytes cut off put in front of the additional
    \* data; the robustness tag, the key and the nonce are the sealed ones
    LET tag == Slice(res.ciphertext, 0, ROBUSTNESS_TAG_SIZE)
        body == Slice(res.ciphertext, ROBUSTNESS_TAG_SIZE, Len(res.ciphertext))
        encoded == toBase64Url(body)
        cuts == {n \in {0, 3 * ((Len(body) - 1) \div 3)} : n < Len(body)}
    IN  {<<tag \o Slice(body, 0, n),
           [additionalData |->
                SubSeq(encoded, 4 * (n \div 3) + 1, Len(encoded))
                    \o call.additionalData,
            key |-> res.key, nonce |-> res.nonce]>> : n \in cuts}

DecryptInputs(call, res) ==
    \* the calls of decryptMessage the model makes after a successful
    \* encryptMessage: every delivery with the right arguments, the sealed
    \* message with every combination of right and wrong additional data,
    \* key and nonce, and the boundary shifts
    LET right == [additionalData |-> call.additionalData,
                  key |-> res.key, nonce |-> res.nonce]
        args == [additionalData : AADs,
                 key : {res.key, OtherKey, Fill(KEY_SIZE - 16, 51)},
                 nonce : {res.nonce, OtherNonce, Fill(NONCE_SIZE - 12, 68)}]
    IN  {<<c, right>> :
            c \in Deliveries(res.ciphertext, call.additionalData, res.key, res.nonce)}
        \cup {<<res.ciphertext, a>> : a \in args}
        \cup BoundaryShifts(call, res)

(***************************************************************************)
(* The state machine: a call of encryptMessage, then a call of             *)
(* decryptMessage on what was delivered.                                   *)
(***************************************************************************)
NoEncCall == [called |-> FALSE, message |-> [isString |-> TRUE, data |-> <<>>],
              additionalData |-> <<>>, key |-> Undefined, nonce |-> Undefined]
NoDecCall == [called |-> FALSE, combinedCiphertext |-> <<>>,
              additionalData |-> <<>>, key |-> <<>>, nonce |-> <<>>]
NotCalled == "not called"

\* no function of the AEAD layer has been called
AeadIdle ==
    /\ encCall = NoEncCall
    /\ encRes = EncThrow(NotCalled, <<>>)
    /\ decCall = NoDecCall
    /\ decRes = DecThrow(NotCalled, <<>>)

\* the same for the signer, generateId, the base64 codec and hash
NoContent == [kind |-> "object", entries |-> <<>>]
NoSignCall == [called |-> FALSE, content |-> NoContent,
               signatureContext |-> <<>>, pair |-> 0, rnd |-> 0]
NoSignRes == [threw |-> NotCalled, signature |-> <<>>, ops |-> <<>>]
NoVerifyCall == [called |-> FALSE, content |-> NoContent,
                 signatureContext |-> <<>>, signature |-> <<>>,
                 publicKey |-> <<>>]
NoVerifyRes == [threw |-> NotCalled, value |-> FALSE, ops |-> <<>>]

SignerIdle ==
    /\ signCall = NoSignCall
    /\ signRes = NoSignRes
    /\ verifyCall = NoVerifyCall
    /\ verifyRes = NoVerifyRes

NoIdCall == [called |-> FALSE, defaulted |-> FALSE, bytesLength |-> 0,
             random |-> <<>>, id |-> <<>>]
IdIdle == idCall = NoIdCall

NoCodecCall == [step |-> "idle", u8a |-> <<>>, b64 |-> <<>>, decoded |-> <<>>]
CodecIdle == codecCall = NoCodecCall

HashIdle == hashCalls = <<>>

\* and for the relay: the object was never constructed
NoSessions == <<>>
NoEnv == [MAX_CONNECTIONS_PER_ROOM |-> Undefined, MAX_MESSAGE_SIZE |-> Undefined]
NoRelayCall == [handler |-> NotCalled]
RelayIdle ==
    /\ sessions = NoSessions
    /\ sockets = <<>>
    /\ env = NoEnv
    /\ lastCall = NoRelayCall

AeadInit ==
    /\ AeadIdle
    /\ SignerIdle
    /\ IdIdle
    /\ CodecIdle
    /\ HashIdle
    /\ RelayIdle

EncryptMessage ==
    /\ ~encCall.called
    /\ \E message \in Messages, additionalData \in AADs,
          key \in SuppliedKeys \cup {Undefined},
          nonce \in SuppliedNonces \cup {Undefined},
          randomKey \in getRandomBytes(KEY_SIZE),
          randomNonce \in getRandomBytes(NONCE_SIZE) :
        /\ encCall' = [called |-> TRUE, message |-> message,
                       additionalData |-> additionalData,
                       key |-> key, nonce |-> nonce]
        /\ encRes' = encryptMessage(message, additionalData, key, nonce,
                                    randomKey, randomNonce)
        /\ UNCHANGED <<decCall, decRes, signerVars, idVars, codecVars, hashVars, relayVars>>

DecryptMessage ==
    /\ encRes.threw = ""
    /\ ~decCall.called
    /\ \E in \in DecryptInputs(encCall, encRes) :
        /\ decCall' = [called |-> TRUE, combinedCiphertext |-> in[1],
                       additionalData |-> in[2].additionalData,
                       key |-> in[2].key, nonce |-> in[2].nonce]
        /\ decRes' = decryptMessage(in[1], in[2].additionalData,
                                    in[2].key, in[2].nonce)
        /\ UNCHANGED <<encCall, encRes, signerVars, idVars, codecVars, hashVars, relayVars>>

AeadNext == EncryptMessage \/ DecryptMessage

Spec == AeadInit /\ [][AeadNext]_vars

(***************************************************************************)
(* Properties of encryptMessage and decryptMessage.                        *)
(***************************************************************************)
Range(f) == {f[i] : i \in DOMAIN f}

\* positions of the operation op in the trace ops
Positions(ops, op) == {i \in DOMAIN ops : ops[i] = op}

Encrypted == encCall.called /\ encRes.threw = ""
Decrypted == decCall.called

RightKey == decCall.key = encRes.key
RightNonce == decCall.nonce = encRes.nonce
RightAad == decCall.additionalData = encCall.additionalData
Unmodified == decCall.combinedCiphertext = encRes.ciphertext

\* the tag decryptMessage received and the tag its arguments call for
ReceivedTag == Slice(decCall.combinedCiphertext, 0, ROBUSTNESS_TAG_SIZE)
ReceivedCiphertext ==
    Slice(decCall.combinedCiphertext, ROBUSTNESS_TAG_SIZE,
          Len(decCall.combinedCiphertext))
ExpectedTag ==
    kmac256(decCall.key,
            TextEncode(toBase64Url(decCall.nonce) \o toBase64Url(ReceivedCiphertext)
                       \o decCall.additionalData),
            ROBUSTNESS_TAG_SIZE, Personalization)
TagsAgree == ReceivedTag = ExpectedTag
NativeCheck ==
    IF Len(decCall.key) # KEY_SIZE \/ Len(decCall.nonce) # NONCE_SIZE
    THEN FALSE
    ELSE CipherDecrypt(decCall.key, decCall.nonce,
                       TextEncode(decCall.additionalData),
                       ReceivedCiphertext).threw = ""

\* a string in which every surrogate is half of a pair
WellFormed(s) ==
    \A i \in 1..Len(s) :
        /\ IsHigh(s[i]) => (i < Len(s) /\ IsLow(s[i + 1]))
        /\ IsLow(s[i]) => (i > 1 /\ IsHigh(s[i - 1]))

\* C1: decrypting the ciphertext encryptMessage returned, with the key and
\* nonce it returned and the same additional data, returns exactly the
\* message.  Stated for the messages that are well-formed text, which
\* TextEncoder encodes without loss.
C1_RoundTrip ==
    (Encrypted /\ Decrypted /\ Unmodified /\ RightKey /\ RightNonce /\ RightAad
        /\ encCall.message.isString /\ WellFormed(encCall.message.data))
        => /\ decRes.threw = ""
           /\ decRes.plaintext = encCall.message.data

\* C2: when the received robustness tag differs from the recomputed one the
\* call ends with the tag-mismatch error and the cipher is never constructed
\* or run; in every call the cipher's operations come after the comparison.
C2_FailClosed ==
    Decrypted =>
        /\ ~TagsAgree =>
              /\ decRes.threw = TagMismatchError
              /\ Range(decRes.ops) \cap {"xchacha20poly1305", "decrypt"} = {}
        /\ \A i \in Positions(decRes.ops, "xchacha20poly1305")
                    \cup Positions(decRes.ops, "decrypt") :
              \E j \in Positions(decRes.ops, "equalBytes") : j < i

C2_Witness ==
    /\ Encrypted /\ Decrypted /\ RightKey /\ RightNonce /\ RightAad
    /\ ~TagsAgree
    /\ decRes.threw = TagMismatchError
    /\ decRes.ops = <<"kmac256", "equalBytes">>

\* the delivered bytes are the sealed message with one bit of its first
\* ROBUSTNESS_TAG_SIZE bytes flipped
OneTagBitFlipped ==
    \E i \in 1..ROBUSTNESS_TAG_SIZE, b \in 0..7 :
        decCall.combinedCiphertext = FlipBit(encRes.ciphertext, i, b)

\* C3: a sealed message with one bit of its first 32 bytes flipped, decrypted
\* with the right key, nonce and additional data, fails with the
\* tag-mismatch error.
C3_TagBitFlip ==
    (Encrypted /\ Decrypted /\ RightKey /\ RightNonce /\ RightAad
        /\ OneTagBitFlipped)
        => decRes.threw = TagMismatchError

C3_Witness ==
    /\ Encrypted /\ Decrypted /\ RightKey /\ RightNonce /\ RightAad
    /\ decCall.combinedCiphertext
           = FlipBit(encRes.ciphertext, ROBUSTNESS_TAG_SIZE, 7)
    /\ decRes.threw = TagMismatchError

ExactlyOneWrong ==
    \/ ~RightKey /\ RightNonce /\ RightAad
    \/ RightKey /\ ~RightNonce /\ RightAad
    \/ RightKey /\ RightNonce /\ ~RightAad

C5_NoPlaintextOnError ==
    Decrypted =>
        /\ decRes.threw = "" => (TagsAgree /\ NativeCheck)
        /\ decRes.threw # "" => decRes.plaintext = <<>>
        /\ decRes.plaintext # <<>> => (TagsAgree /\ NativeCheck)

C5_Witness ==
    /\ Decrypted
    /\ decRes.threw = ""
    /\ decRes.plaintext # <<>>
    /\ TagsAgree /\ NativeCheck

\* C6: when the robustness tag agrees and the cipher's own check fails, the
\* call fails with the cipher's error, which is not the tag-mismatch error.
C6_DistinctErrors ==
    (Decrypted /\ TagsAgree /\ ~NativeCheck)
        => /\ decRes.threw \in {InvalidTag, CiphertextTooShort,
                                InvalidKeyLength, InvalidNonceLength}
           /\ decRes.threw # TagMismatchError

C6_Witness ==
    /\ Decrypted /\ TagsAgree /\ ~NativeCheck
    /\ decRes.threw = InvalidTag

KeySupplied == encCall.called /\ encCall.key # Undefined
NonceSupplied == encCall.called /\ encCall.nonce # Undefined

\* C7: a supplied key whose length is not KEY_SIZE makes encryptMessage fail
\* with the key-size error and return nothing; with the key omitted the call
\* never fails with that error and the key it returns has KEY_SIZE bytes.
C7_KeySize ==
    encCall.called =>
        /\ (KeySupplied /\ Len(encCall.key) # KEY_SIZE) =>
              encRes = EncThrow(KeySizeError, encRes.ops)
        /\ ~KeySupplied =>
              /\ encRes.threw # KeySizeError
              /\ encRes.threw = "" => Len(encRes.key) = KEY_SIZE

C7_Witness ==
    /\ KeySupplied /\ Len(encCall.key) > KEY_SIZE
    /\ encRes.threw = KeySizeError

\* C8: when encryptMessage rejects a key or a nonce for its length, no random
\* bytes were drawn, nothing was encrypted and no MAC was computed in that
\* call.
C8_ValidationFirst ==
    (encCall.called /\ encRes.threw \in {KeySizeError, InvalidNonceLength})
        => Range(encRes.ops) \cap {"getRandomBytes", "encrypt", "kmac256"} = {}

\* C9: decryptMessage given a key whose length is not KEY_SIZE fails with the
\* key-size error and computes no tag with it.
C9_DecryptKeySize ==
    (Decrypted /\ Len(decCall.key) # KEY_SIZE)
        => /\ decRes.threw = KeySizeError
           /\ "kmac256" \notin Range(decRes.ops)

\* C10: a nonce returned by encryptMessage has NONCE_SIZE bytes, and a
\* supplied nonce of another length makes the call fail with no sealed
\* message.
C10_NonceLength ==
    encCall.called =>
        /\ encRes.threw = "" => Len(encRes.nonce) = NONCE_SIZE
        /\ (NonceSupplied /\ Len(encCall.nonce) # NONCE_SIZE) =>
              (encRes.threw # "" /\ encRes.ciphertext = <<>>)

C10_Witness ==
    /\ NonceSupplied /\ Len(encCall.nonce) # NONCE_SIZE
    /\ encRes.threw = InvalidNonceLength

\* the two parts of the sealed message encryptMessage returned
SealedTag == Slice(encRes.ciphertext, 0, ROBUSTNESS_TAG_SIZE)
SealedBody ==
    Slice(encRes.ciphertext, ROBUSTNESS_TAG_SIZE, Len(encRes.ciphertext))

\* C11: the ciphertext encryptMessage returns is the robustness tag
\* (ROBUSTNESS_TAG_SIZE bytes) followed by the cipher's output and nothing
\* else: its length is ROBUSTNESS_TAG_SIZE + the message's byte length +
\* NATIVE_TAG_SIZE, more than ROBUSTNESS_TAG_SIZE also for the empty message;
\* decryptMessage takes the first ROBUSTNESS_TAG_SIZE bytes of its input as
\* the tag and the rest as the cipher's input.
C11_ByteLayout ==
    /\ Encrypted =>
          /\ Len(encRes.ciphertext)
                = ROBUSTNESS_TAG_SIZE + Len(MessageBytes(encCall.message))
                  + NATIVE_TAG_SIZE
          /\ Len(encRes.ciphertext) > ROBUSTNESS_TAG_SIZE
          /\ encRes.ciphertext
                = RobustnessTag(encRes.key, encRes.nonce, SealedBody,
                                encCall.additionalData)
                  \o CipherEncrypt(encRes.key, encRes.nonce,
                                   TextEncode(encCall.additionalData),
                                   MessageBytes(encCall.message))
    /\ (Decrypted /\ decRes.threw = "") =>
          /\ TagsAgree
          /\ decRes.plaintext
                = TextDecode(CipherDecrypt(decCall.key, decCall.nonce,
                                           TextEncode(decCall.additionalData),
                                           ReceivedCiphertext).bytes)

C11_Witness ==
    /\ Encrypted /\ encCall.message.data = <<>>
    /\ Len(encRes.ciphertext) = ROBUSTNESS_TAG_SIZE + NATIVE_TAG_SIZE
    /\ Decrypted /\ Unmodified /\ decRes.threw = ""

\* C12: the key and nonce encryptMessage returns are the ones the cipher's
\* output and the robustness tag were computed with, and they are the
\* supplied key and nonce when these were supplied.
C12_ReturnsUsedKeyNonce ==
    Encrypted =>
        /\ KeySupplied => encRes.key = encCall.key
        /\ NonceSupplied => encRes.nonce = encCall.nonce
        /\ SealedBody = CipherEncrypt(encRes.key, encRes.nonce,
                                      TextEncode(encCall.additionalData),
                                      MessageBytes(encCall.message))
        /\ SealedTag = RobustnessTag(encRes.key, encRes.nonce, SealedBody,
                                     encCall.additionalData)

C12_Witness ==
    /\ Encrypted /\ KeySupplied /\ NonceSupplied
    /\ encRes.key = encCall.key /\ encRes.nonce = encCall.nonce
    /\ encCall.message.data # <<>>

\* the string the robustness tag was computed over when the message was
\* sealed, and the string decryptMessage's arguments call for
SealedInput ==
    toBase64Url(encRes.nonce) \o toBase64Url(SealedBody)
        \o encCall.additionalData
ReceivedInput ==
    toBase64Url(decCall.nonce) \o toBase64Url(ReceivedCiphertext)
        \o decCall.additionalData
CipherOps == {"xchacha20poly1305", "decrypt"}

\* the sealed robustness tag, key and nonce with another AEAD ciphertext or
\* other additional data
BodyOrAadChanged ==
    /\ Encrypted /\ Decrypted /\ RightKey /\ RightNonce
    /\ ReceivedTag = SealedTag
    /\ (ReceivedCiphertext # SealedBody \/ ~RightAad)
    /\ WellFormed(encCall.additionalData) /\ WellFormed(decCall.additionalData)

\* C22 as stated: a sealed message whose AEAD ciphertext and/or additional
\* data were changed has another tag input string, fails with the
\* tag-mismatch error and never reaches the cipher.
C22_UnambiguousTagInput ==
    BodyOrAadChanged
        => /\ SealedInput # ReceivedInput
           /\ decRes.threw = TagMismatchError
           /\ Range(decRes.ops) \cap CipherOps = {}

\* C22 amended: a sealed message whose AEAD ciphertext and/or additional
\* data were changed never yields a plaintext.  When the tag input string
\* changed with them it fails with the tag-mismatch error before the cipher
\* is touched; when the string is the same (the boundary between the base64
\* text of the ciphertext and the additional data moved) the robustness
\* check passes and the cipher rejects it with its own error.
C22_TagInputBinding ==
    BodyOrAadChanged
        => /\ decRes.threw # "" /\ decRes.plaintext = <<>>
           /\ SealedInput # ReceivedInput
                 => /\ decRes.threw = TagMismatchError
                    /\ Range(decRes.ops) \cap CipherOps = {}
           /\ SealedInput = ReceivedInput
                 => /\ decRes.threw \in {InvalidTag, CiphertextTooShort}
                    /\ "decrypt" \in Range(decRes.ops)

C22_Witness ==
    /\ BodyOrAadChanged
    /\ ReceivedCiphertext # SealedBody /\ ~RightAad
    /\ SealedInput = ReceivedInput
    /\ decRes.threw = InvalidTag

\* C23: decryptMessage given fewer than ROBUSTNESS_TAG_SIZE bytes, the empty
\* input included, fails with the tag-mismatch error after the comparison of
\* the tags, and the cipher is neither constructed nor run.
C23_ShortInput ==
    (Decrypted /\ Len(decCall.combinedCiphertext) < ROBUSTNESS_TAG_SIZE)
        => /\ decRes.threw = TagMismatchError
           /\ decRes.plaintext = <<>>
           /\ decRes.ops = <<"kmac256", "equalBytes">>

C23_Witness ==
    /\ Decrypted
    /\ decCall.combinedCiphertext = <<>>
    /\ decRes.threw = TagMismatchError
    /\ decRes.ops = <<"kmac256", "equalBytes">>

(***************************************************************************)
(* canonicalize (the 'canonicalize' package): JSON with the members of an  *)
(* object sorted by key and no white space.  A content is what the caller  *)
(* passes at run time: an object, given as its members in insertion order  *)
(* (an object has no two members with the same key), or a value that is    *)
(* not an object.  A member's value is a string or an integer.             *)
(***************************************************************************)
RECURSIVE Digits(_)
Digits(n) ==
    IF n < 10 THEN <<48 + n>> ELSE Digits(n \div 10) \o <<48 + (n % 10)>>

JsonNumber(n) == IF n < 0 THEN <<45>> \o Digits(-n) ELSE Digits(n)

HexDigit(d) == IF d < 10 THEN 48 + d ELSE 87 + d

Hex4(u) ==
    <<HexDigit(u \div 4096), HexDigit((u \div 256) % 16),
      HexDigit((u \div 16) % 16), HexDigit(u % 16)>>

LoneSurrogate(s, i) ==
    \/ IsHigh(s[i]) /\ ~(i < Len(s) /\ IsLow(s[i + 1]))
    \/ IsLow(s[i]) /\ ~(i > 1 /\ IsHigh(s[i - 1]))

JsonEscape(s, i) ==
    \* what JSON.stringify writes for code unit i of a string
    LET u == s[i] IN
    IF u = 34 THEN <<92, 34>>
    ELSE IF u = 92 THEN <<92, 92>>
    ELSE IF u = 8 THEN <<92, 98>>
    ELSE IF u = 9 THEN <<92, 116>>
    ELSE IF u = 10 THEN <<92, 110>>
    ELSE IF u = 12 THEN <<92, 102>>
    ELSE IF u = 13 THEN <<92, 114>>
    ELSE IF u < 32 \/ LoneSurrogate(s, i) THEN <<92, 117>> \o Hex4(u)
    ELSE <<u>>

JsonString(s) ==
    <<34>> \o Concat([i \in 1..Len(s) |-> JsonEscape(s, i)], 1, Len(s)) \o <<34>>

JsonValue(v) == IF v.isString THEN JsonString(v.str) ELSE JsonNumber(v.num)

StrLess(a, b) ==
    \* a sorts before b in the order of Array.prototype.sort: by code units
    \E i \in 1..(Len(a) + 1) :
        /\ i <= Len(b)
        /\ \A j \in 1..(i - 1) : a[j] = b[j]
        /\ (i > Len(a) \/ a[i] < b[i])

SortByKey(entries) ==
    \* Object.keys(object).sort()
    [j \in 1..Len(entries) |->
        entries[CHOOSE i \in 1..Len(entries) :
                    Cardinality({k \in 1..Len(entries) :
                                    StrLess(entries[k].key, entries[i].key)})
                        = j - 1]]

JsonMembers(entries) ==
    Concat([j \in 1..Len(entries) |->
               (IF j > 1 THEN <<44>> ELSE <<>>)
               \o JsonString(entries[j].key) \o <<58>>
               \o JsonValue(entries[j].value)],
           1, Len(entries))

CallStackExceeded == "RangeError: Maximum call stack size exceeded"

NotAString(error) == [threw |-> error, isString |-> FALSE, data |-> <<>>]

canonicalize_InsertionOrder(content) ==
    \* the keys are not sorted
    IF content.kind = "circular" THEN NotAString(CallStackExceeded)
    ELSE IF content.kind # "object" THEN NotAString("")
    ELSE [threw |-> "", isString |-> TRUE,
          data |-> <<123>> \o JsonMembers(content.entries) \o <<125>>]

canonicalize(content) ==
    \* a string for an object; undefined (as JSON.stringify gives) for a
    \* value that JSON cannot express; the recursion over an object that
    \* contains itself ends when the call stack is exhausted
    IF content.kind = "circular" THEN NotAString(CallStackExceeded)
    ELSE IF content.kind # "object" THEN NotAString("")
    ELSE [threw |-> "", isString |-> TRUE,
          data |-> <<123>> \o JsonMembers(SortByKey(content.entries)) \o <<125>>]

(***************************************************************************)
(* ml_dsa87 (@noble/post-quantum).  The lattice arithmetic is not part of  *)
(* this repository: a signature is the signing randomness followed by a    *)
(* digest that binds the key pair and the message, and verification        *)
(* accepts exactly the signatures made with the secret key that belongs to *)
(* the public key.                                                         *)
(***************************************************************************)
\* Byte lengths of public keys, secret keys and signatures.  ML-DSA-87 has
\* 2592, 4896 and 4627; the model keeps what the signer depends on, that
\* each is one fixed length, and scales the lengths down.
PublicKeyLen == 4
SecretKeyLen == 8
SignatureLen == 9

\* the seeds keygen may draw, and the randomness a signature may be hedged with
KeySeeds == {1, 2}
SignRandoms == {0, 1}

ml_dsa87_keygen(seed) ==
    [secretKey |-> Fill(SecretKeyLen, seed + 128),
     publicKey |-> Fill(PublicKeyLen, seed)]

KeyPairs == [seed \in KeySeeds |-> ml_dsa87_keygen(seed)]

\* the key pair a key belongs to; 0 for a key that keygen never returned
PairOfSecret(secretKey) ==
    IF \E p \in KeySeeds : KeyPairs[p].secretKey = secretKey
    THEN CHOOSE p \in KeySeeds : KeyPairs[p].secretKey = secretKey
    ELSE 0

PairOfPublic(publicKey) ==
    IF \E p \in KeySeeds : KeyPairs[p].publicKey = publicKey
    THEN CHOOSE p \in KeySeeds : KeyPairs[p].publicKey = publicKey
    ELSE 0

SignatureBytes(pair, rnd, message) ==
    <<rnd>> \o Digest(<<2, pair, rnd>> \o message, SignatureLen - 1)

InvalidSecretKeyLength == "ml_dsa87: invalid secret key length"
InvalidPublicKeyLength == "ml_dsa87: invalid public key length"

ml_dsa87_sign(message, secretKey, rnd) ==
    \* the secret key is decoded first, which fails for another length
    IF Len(secretKey) # SecretKeyLen
    THEN [threw |-> InvalidSecretKeyLength, bytes |-> <<>>]
    ELSE [threw |-> "",
          bytes |-> SignatureBytes(PairOfSecret(secretKey), rnd, message)]

ml_dsa87_verify(sig, message, publicKey) ==
    \* the public key is decoded first, which fails for another length; a
    \* signature of another length is answered with false
    IF Len(publicKey) # PublicKeyLen
    THEN [threw |-> InvalidPublicKeyLength, value |-> FALSE]
    ELSE IF Len(sig) # SignatureLen THEN [threw |-> "", value |-> FALSE]
    ELSE [threw |-> "",
          value |-> /\ PairOfPublic(publicKey) # 0
                    /\ sig = SignatureBytes(PairOfPublic(publicKey), sig[1],
                                            message)]

(***************************************************************************)
(* The signer: generatePqcSignatureKeyPair, sign, verifySignature.         *)
(***************************************************************************)
InvalidContent == "Invalid content"

generatePqcSignatureKeyPair(seed) == ml_dsa87_keygen(seed)

SignThrow(error, ops) == [threw |-> error, signature |-> <<>>, ops |-> ops]

sign_NoContext(content, signatureContext, privateKey, rnd) ==
    \* the context is left out of the message that is signed
    LET serializedContent == canonicalize(content)
        message == TextEncode(serializedContent.data)
        signed == ml_dsa87_sign(message, privateKey, rnd)
    IN  IF serializedContent.threw # ""
        THEN SignThrow(serializedContent.threw, <<"canonicalize">>)
        ELSE IF ~serializedContent.isString
             THEN SignThrow(InvalidContent, <<"canonicalize">>)
        ELSE IF signed.threw # ""
             THEN SignThrow(signed.threw, <<"canonicalize", "ml_dsa87.sign">>)
        ELSE [threw |-> "", signature |-> signed.bytes,
              ops |-> <<"canonicalize", "ml_dsa87.sign">>]

sign(content, signatureContext, privateKey, rnd) ==
    LET serializedContent == canonicalize(content)
        message == TextEncode(signatureContext \o serializedContent.data)
        signed == ml_dsa87_sign(message, privateKey, rnd)
    IN  IF serializedContent.threw # ""
        THEN SignThrow(serializedContent.threw, <<"canonicalize">>)
        ELSE IF ~serializedContent.isString
             THEN SignThrow(InvalidContent, <<"canonicalize">>)
        ELSE IF signed.threw # ""
             THEN SignThrow(signed.threw, <<"canonicalize", "ml_dsa87.sign">>)
        ELSE [threw |-> "", signature |-> signed.bytes,
              ops |-> <<"canonicalize", "ml_dsa87.sign">>]

VerifyThrow(error, ops) == [threw |-> error, value |-> FALSE, ops |-> ops]

verifySignature_ContentFirst(content, signatureContext, signature, publicKey) ==
    \* the message is built as content + context
    LET serializedContent == canonicalize(content)
        message == TextEncode(serializedContent.data \o signatureContext)
        verified == ml_dsa87_verify(signature, message, publicKey)
    IN  IF serializedContent.threw # ""
        THEN VerifyThrow(serializedContent.threw, <<"canonicalize">>)
        ELSE IF ~serializedContent.isString
             THEN [threw |-> "", value |-> FALSE, ops |-> <<"canonicalize">>]
        ELSE IF verified.threw # ""
             THEN VerifyThrow(verified.threw, <<"canonicalize", "ml_dsa87.verify">>)
        ELSE [threw |-> "", value |-> verified.value,
              ops |-> <<"canonicalize", "ml_dsa87.verify">>]

verifySignature_NoContext(content, signatureContext, signature, publicKey) ==
    \* the context is left out of the message that is verified
    LET serializedContent == canonicalize(content)
        message == TextEncode(serializedContent.data)
        verified == ml_dsa87_verify(signature, message, publicKey)
    IN  IF serializedContent.threw # ""
        THEN VerifyThrow(serializedContent.threw, <<"canonicalize">>)
        ELSE IF ~serializedContent.isString
             THEN [threw |-> "", value |-> FALSE, ops |-> <<"canonicalize">>]
        ELSE IF verified.threw # ""
             THEN VerifyThrow(verified.threw, <<"canonicalize", "ml_dsa87.verify">>)
        ELSE [threw |-> "", value |-> verified.value,
              ops |-> <<"canonicalize", "ml_dsa87.verify">>]

verifySignature(content, signatureContext, signature, publicKey) ==
    LET serializedContent == canonicalize(content)
        message == TextEncode(signatureContext \o serializedContent.data)
        verified == ml_dsa87_verify(signature, message, publicKey)
    IN  IF serializedContent.threw # ""
        THEN VerifyThrow(serializedContent.threw, <<"canonicalize">>)
        ELSE IF ~serializedContent.isString
             THEN [threw |-> "", value |-> FALSE, ops |-> <<"canonicalize">>]
        ELSE IF verified.threw # ""
             THEN VerifyThrow(verified.threw, <<"canonicalize", "ml_dsa87.verify">>)
        ELSE [threw |-> "", value |-> verified.value,
              ops |-> <<"canonicalize", "ml_dsa87.verify">>]

(***************************************************************************)
(* The inputs the model draws for the signer.                              *)
(***************************************************************************)
\* longest signature context, in UTF-16 code units
MaxContextLen == 1

\* "amount" and "id"
FieldNames == {<<97, 109, 111, 117, 110, 116>>, <<105, 100>>}
\* the string "10", the number 10 and the string "{"
FieldValues ==
    {[isString |-> TRUE, str |-> <<49, 48>>, num |-> 0],
     [isString |-> FALSE, str |-> <<>>, num |-> 10],
     [isString |-> TRUE, str |-> <<123>>, num |-> 0]}

Objects ==
    {[kind |-> "object", entries |-> e] :
        e \in {m \in SeqsUpTo([key : FieldNames, value : FieldValues],
                                Cardinality(FieldNames)) :
                  \A i, j \in 1..Len(m) : m[i].key = m[j].key => i = j}}

\* values that are not objects, and an object that contains itself
NonObjects == {[kind |-> k, entries |-> <<>>] : k \in {"undefined", "function"}}
Circular == [kind |-> "circular", entries |-> <<>>]

Contents == Objects \cup NonObjects \cup {Circular}

\* "A" and "{"
ContextUnits == {65, 123}
Contexts == SeqsUpTo(ContextUnits, MaxContextLen)

SignatureDeliveries(signature) ==
    {signature, FlipBit(signature, 2, 0),
     Slice(signature, 0, SignatureLen - 1), <<>>}

PublicKeyDeliveries(pair) ==
    {KeyPairs[p].publicKey : p \in KeySeeds}
    \cup {FlipBit(KeyPairs[pair].publicKey, 1, 7),
          Slice(KeyPairs[pair].publicKey, 0, PublicKeyLen - 1)}

ShiftedContexts(call) ==
    \* contexts that take over the head of the signed content's canonical
    \* string, up to a brace inside it
    LET serialized == canonicalize(call.content).data
    IN  {call.signatureContext \o SubSeq(serialized, 1, k) :
            k \in {n \in 1..(Len(serialized) - 1) : serialized[n + 1] = 123}}

VerifyInputs(call, res) ==
    \* the calls of verifySignature the model makes after a call of sign:
    \* every content and context with the signature and the signer's public
    \* key, every content object under a shifted context, and the signed
    \* content and context with every delivered signature and public key.
    \* After a sign that failed the signature is an array of the right
    \* length that no key produced.
    LET signature == IF res.threw = "" THEN res.signature
                     ELSE Fill(SignatureLen, 0)
        publicKey == KeyPairs[call.pair].publicKey
    IN  {[content |-> c, signatureContext |-> x,
          signature |-> signature, publicKey |-> publicKey] :
            c \in Contents, x \in Contexts}
        \cup {[content |-> c, signatureContext |-> x,
               signature |-> signature, publicKey |-> publicKey] :
                c \in Objects, x \in ShiftedContexts(call)}
        \cup {[content |-> call.content, signatureContext |-> call.signatureContext,
               signature |-> g, publicKey |-> publicKey] :
                g \in SignatureDeliveries(signature)}
        \cup {[content |-> call.content, signatureContext |-> call.signatureContext,
               signature |-> signature, publicKey |-> k] :
                k \in PublicKeyDeliveries(call.pair)}

(***************************************************************************)
(* The signer's state machine: a key pair is generated and sign is called  *)
(* with its secret key, then verifySignature is called.                    *)
(***************************************************************************)
SignerInit ==
    /\ AeadIdle
    /\ SignerIdle
    /\ IdIdle
    /\ CodecIdle
    /\ HashIdle
    /\ RelayIdle

Sign ==
    /\ ~signCall.called
    /\ \E content \in Contents, signatureContext \in Contexts,
          pair \in KeySeeds, rnd \in SignRandoms :
        /\ signCall' = [called |-> TRUE, content |-> content,
                        signatureContext |-> signatureContext,
                        pair |-> pair, rnd |-> rnd]
        /\ signRes' = sign(content, signatureContext,
                           generatePqcSignatureKeyPair(pair).secretKey, rnd)
        /\ UNCHANGED <<verifyCall, verifyRes, aeadVars, idVars, codecVars, hashVars, relayVars>>

VerifySignature ==
    /\ signCall.called
    /\ ~verifyCall.called
    /\ \E in \in VerifyInputs(signCall, signRes) :
        /\ verifyCall' = [called |-> TRUE, content |-> in.content,
                          signatureContext |-> in.signatureContext,
                          signature |-> in.signature,
                          publicKey |-> in.publicKey]
        /\ verifyRes' = verifySignature(in.content, in.signatureContext,
                                        in.signature, in.publicKey)
        /\ UNCHANGED <<signCall, signRes, aeadVars, idVars, codecVars, hashVars, relayVars>>

SignerNext == Sign \/ VerifySignature

SignerSpec == SignerInit /\ [][SignerNext]_vars

(***************************************************************************)
(* Properties of sign and verifySignature.                                 *)
(***************************************************************************)
Signed == signCall.called /\ signRes.threw = ""
Verified == verifyCall.called

SignerPublicKey == KeyPairs[signCall.pair].publicKey

SameContent == verifyCall.content = signCall.content
SameContext == verifyCall.signatureContext = signCall.signatureContext
OwnSignature == verifyCall.signature = signRes.signature
OwnPublicKey == verifyCall.publicKey = SignerPublicKey

\* the key/value pairs of a content object
Fields(content) == {<<e.key, e.value>> : e \in Range(content.entries)}
SameFields ==
    /\ verifyCall.content.kind = "object"
    /\ signCall.content.kind = "object"
    /\ Fields(verifyCall.content) = Fields(signCall.content)

Canonicalizable(content) ==
    canonicalize(content).threw = "" /\ canonicalize(content).isString

\* C13: a signature sign returned for a content and a context under the
\* secret key of a generated key pair verifies, for the same content and
\* context, under the public key of that pair.
C13_SignatureRoundTrip ==
    (Signed /\ Verified /\ SameContent /\ SameContext /\ OwnSignature
        /\ OwnPublicKey)
        => (verifyRes.threw = "" /\ verifyRes.value)

C13_Witness ==
    /\ Signed /\ Verified /\ SameContent /\ SameContext /\ OwnSignature
    /\ OwnPublicKey
    /\ Len(signCall.content.entries) = 2
    /\ signCall.signatureContext # <<>>
    /\ verifyRes.value

C15_OrderIndependent ==
    (Signed /\ Verified /\ SameFields /\ SameContext /\ OwnSignature
        /\ OwnPublicKey)
        => /\ canonicalize(verifyCall.content) = canonicalize(signCall.content)
           /\ verifyRes.threw = "" /\ verifyRes.value

C15_Witness ==
    /\ Signed /\ Verified /\ SameFields /\ ~SameContent
    /\ SameContext /\ OwnSignature /\ OwnPublicKey
    /\ verifyRes.value

\* C16: verifySignature ends with a boolean and never with an error, and the
\* boolean is false when the content cannot be canonicalized.
C16_VerifyNeverRaises ==
    Verified =>
        /\ verifyRes.threw = ""
        /\ ~Canonicalizable(verifyCall.content) => ~verifyRes.value

\* C17: when the content cannot be canonicalized into a string, sign fails
\* with the invalid-content error, the signature algorithm is not invoked
\* and no signature is returned.
C17_SignInvalidContent ==
    (signCall.called /\ ~Canonicalizable(signCall.content))
        => /\ signRes.threw = InvalidContent
           /\ "ml_dsa87.sign" \notin Range(signRes.ops)
           /\ signRes.signature = <<>>

\* the bytes sign signed and the bytes verifySignature asked about
IsPrefix(a, b) == Len(a) <= Len(b) /\ SubSeq(b, 1, Len(a)) = a
SignedBytes ==
    TextEncode(signCall.signatureContext \o canonicalize(signCall.content).data)
VerifiedBytes ==
    TextEncode(verifyCall.signatureContext
               \o canonicalize(verifyCall.content).data)

B64Value(c) ==
    \* the value of a character of the standard alphabet; -1 for any other
    IF c >= 65 /\ c <= 90 THEN c - 65
    ELSE IF c >= 97 /\ c <= 122 THEN c - 71
    ELSE IF c >= 48 /\ c <= 57 THEN c + 4
    ELSE IF c = 43 THEN 62
    ELSE IF c = 47 THEN 63
    ELSE -1

\* - and _ are read as + and /
UnUri(c) == IF c = 45 THEN 43 ELSE IF c = 95 THEN 47 ELSE c

\* every character outside the standard alphabet, padding included, is dropped
Tidy(s) == SelectSeq(s, LAMBDA c : B64Value(c) >= 0)

DecodeGroup(v, i) ==
    \* the bytes of the group of up to four values that starts at v[i]; a
    \* last group of one value holds no whole byte
    LET left == Len(v) - i + 1 IN
    IF left = 1 THEN <<>>
    ELSE IF left = 2 THEN <<(v[i] * 4) + (v[i + 1] \div 16)>>
    ELSE IF left = 3
         THEN <<(v[i] * 4) + (v[i + 1] \div 16),
                ((v[i + 1] % 16) * 16) + (v[i + 2] \div 4)>>
    ELSE <<(v[i] * 4) + (v[i + 1] \div 16),
           ((v[i + 1] % 16) * 16) + (v[i + 2] \div 4),
           ((v[i + 2] % 4) * 64) + v[i + 3]>>

DecodeValues(v) ==
    LET groups == (Len(v) + 3) \div 4
    IN  Concat([g \in 1..groups |-> DecodeGroup(v, (4 * g) - 3)], 1, groups)

fromBase64_NoUnUri(b64) ==
    \* - and _ are not translated before the other characters are dropped
    LET tidy == Tidy(b64)
    IN  DecodeValues([i \in 1..Len(tidy) |-> B64Value(tidy[i])])

fromBase64(b64) ==
    LET tidy == Tidy([i \in 1..Len(b64) |-> UnUri(b64[i])])
    IN  DecodeValues([i \in 1..Len(tidy) |-> B64Value(tidy[i])])

(***************************************************************************)
(* random.ts: generateId.                                                  *)
(***************************************************************************)
ID_BYTES_LENGTH == 24

\* longest byte array the model enumerates in full
MaxBytesLen == 3

\* bytes whose encodings use every kind of character of the alphabet
SampleBytes == {0, 97, 251, 255}
ByteArrays == SeqsUpTo(SampleBytes, MaxBytesLen)

\* what the generator may produce: the model repeats a drawn array
RandomStreams == ByteArrays \ {<<>>}

randomBytes(bytesLength, stream) ==
    \* the first bytesLength bytes of the generator's output
    [i \in 1..bytesLength |-> stream[((i - 1) % Len(stream)) + 1]]

\* an omitted bytesLength argument
DefaultLength == -1

generateId(bytesLength, stream) ==
    LET length == IF bytesLength = DefaultLength THEN ID_BYTES_LENGTH
                  ELSE bytesLength
    IN  toBase64Url(randomBytes(length, stream))

IdLengths == {DefaultLength, 0, 1, 2, 3, 12, 18, ID_BYTES_LENGTH}

IdInit ==
    /\ AeadIdle
    /\ SignerIdle
    /\ IdIdle
    /\ CodecIdle
    /\ HashIdle
    /\ RelayIdle

GenerateId ==
    /\ ~idCall.called
    /\ \E bytesLength \in IdLengths, stream \in RandomStreams :
        /\ idCall' = [called |-> TRUE,
                      defaulted |-> bytesLength = DefaultLength,
                      bytesLength |-> IF bytesLength = DefaultLength
                                      THEN ID_BYTES_LENGTH ELSE bytesLength,
                      random |-> stream,
                      id |-> generateId(bytesLength, stream)]
        /\ UNCHANGED <<aeadVars, signerVars, codecVars, hashVars, relayVars>>

IdNext == GenerateId

IdSpec == IdInit /\ [][IdNext]_vars

\* the code units of A-Z, a-z, 0-9, - and _
UrlSafeAlphabet == (65..90) \cup (97..122) \cup (48..57) \cup {45, 95}

\* C18: the string generateId returns has only characters of A-Z a-z 0-9 - _
\* and no padding: its length is 4n/3 for a number n of bytes that is a
\* multiple of 3 (32 for the default of 24 bytes), the unpadded length
\* (4n + 2) div 3 in general, it is empty for n = 0, and it decodes to the n
\* bytes that were drawn.
C18_GenerateId ==
    idCall.called =>
        /\ Range(idCall.id) \subseteq UrlSafeAlphabet
        /\ Len(idCall.id) = ((4 * idCall.bytesLength) + 2) \div 3
        /\ idCall.bytesLength % 3 = 0 =>
              3 * Len(idCall.id) = 4 * idCall.bytesLength
        /\ idCall.defaulted => Len(idCall.id) = 32
        /\ idCall.bytesLength = 0 => idCall.id = <<>>
        /\ fromBase64(idCall.id) = randomBytes(idCall.bytesLength, idCall.random)

C18_Witness ==
    /\ idCall.called /\ idCall.defaulted
    /\ Len(idCall.id) = 32
    /\ {45, 95} \subseteq Range(idCall.id)

(***************************************************************************)
(* The codec's state machine: toBase64Url is called on a byte array, then  *)
(* fromBase64 on the string it returned, as it is or with padding added.   *)
(***************************************************************************)
Padded(b64) ==
    \* the string with the = characters a padding encoder appends
    b64 \o Fill((4 - (Len(b64) % 4)) % 4, 61)

CodecInit ==
    /\ AeadIdle
    /\ SignerIdle
    /\ IdIdle
    /\ CodecIdle
    /\ HashIdle
    /\ RelayIdle

ToBase64Url ==
    /\ codecCall.step = "idle"
    /\ \E u8a \in ByteArrays :
        /\ codecCall' = [step |-> "encoded", u8a |-> u8a,
                         b64 |-> toBase64Url(u8a), decoded |-> <<>>]
        /\ UNCHANGED <<aeadVars, signerVars, idVars, hashVars, relayVars>>

FromBase64 ==
    /\ codecCall.step = "encoded"
    /\ \E b64 \in {codecCall.b64, Padded(codecCall.b64)} :
        /\ codecCall' = [codecCall EXCEPT !.step = "decoded", !.b64 = b64,
                                          !.decoded = fromBase64(b64)]
        /\ UNCHANGED <<aeadVars, signerVars, idVars, hashVars, relayVars>>

CodecNext == ToBase64Url \/ FromBase64

CodecSpec == CodecInit /\ [][CodecNext]_vars

\* C19: fromBase64 applied to the string toBase64Url returned for a byte
\* array gives back that byte array, for every length of the array.
C19_CodecRoundTrip ==
    (codecCall.step = "decoded" /\ codecCall.b64 = toBase64Url(codecCall.u8a))
        => codecCall.decoded = codecCall.u8a

C19_Witness ==
    /\ codecCall.step = "decoded"
    /\ codecCall.b64 = toBase64Url(codecCall.u8a)
    /\ Len(codecCall.u8a) = 2
    /\ {45, 95} \cap Range(codecCall.b64) # {}
    /\ codecCall.decoded = codecCall.u8a

(***************************************************************************)
(* hash: BLAKE3 of the message with an output of outputLen bytes.  blake3  *)
(* (@noble/hashes) is a digest of its input bytes with its own domain; as  *)
(* an extendable-output function a shorter digest is a prefix of a longer  *)
(* one.                                                                    *)
(***************************************************************************)
DEFAULT_OUTPUT_LEN == 64

blake3(data, dkLen) == Digest(<<3>> \o data, dkLen)

hash_FixedLength(message, outputLen) ==
    \* the outputLen argument does not reach blake3
    blake3(IF message.isString THEN TextEncode(message.data) ELSE message.data,
           DEFAULT_OUTPUT_LEN)

hash(message, outputLen) ==
    LET dkLen == IF outputLen = DefaultLength THEN DEFAULT_OUTPUT_LEN
                 ELSE outputLen
    IN  blake3(IF message.isString THEN TextEncode(message.data)
               ELSE message.data,
               dkLen)

\* the messages of the AEAD model, and the UTF-8 bytes of its text messages
HashMessages ==
    Messages
    \cup {[isString |-> FALSE, data |-> TextEncode(m.data)] :
             m \in {n \in Messages : n.isString}}

OutputLens == {DefaultLength, 0, 1, 32, DEFAULT_OUTPUT_LEN, 65}

HashInit ==
    /\ AeadIdle
    /\ SignerIdle
    /\ IdIdle
    /\ CodecIdle
    /\ HashIdle
    /\ RelayIdle

Hash ==
    \* two calls are made, one after the other
    /\ Len(hashCalls) < 2
    /\ \E message \in HashMessages, outputLen \in OutputLens :
        /\ hashCalls' = Append(hashCalls,
                               [message |-> message, outputLen |-> outputLen,
                                digest |-> hash(message, outputLen)])
        /\ UNCHANGED <<aeadVars, signerVars, idVars, codecVars, relayVars>>

HashNext == Hash

HashSpec == HashInit /\ [][HashNext]_vars

\* the output length a call asks for
AskedLen(call) ==
    IF call.outputLen = DefaultLength THEN DEFAULT_OUTPUT_LEN ELSE call.outputLen

\* the bytes a call's message stands for
Utf8Of(call) ==
    IF call.message.isString THEN TextEncode(call.message.data)
    ELSE call.message.data

\* C20: a digest has exactly outputLen bytes, 64 when outputLen is omitted;
\* two calls with the same message and outputLen return the same bytes; and
\* a call with a string returns what a call with the string's UTF-8 bytes
\* and the same outputLen returns.
C20_Hash ==
    /\ \A i \in DOMAIN hashCalls :
          Len(hashCalls[i].digest) = AskedLen(hashCalls[i])
    /\ \A i, j \in DOMAIN hashCalls :
          (/\ Utf8Of(hashCalls[i]) = Utf8Of(hashCalls[j])
           /\ AskedLen(hashCalls[i]) = AskedLen(hashCalls[j]))
              => hashCalls[i].digest = hashCalls[j].digest

C20_Witness ==
    /\ Len(hashCalls) = 2
    /\ hashCalls[1].message.isString /\ ~hashCalls[2].message.isString
    /\ hashCalls[1].message.data = <<65279>>
    /\ hashCalls[2].message.data = TextEncode(hashCalls[1].message.data)
    /\ hashCalls[1].outputLen = 32 /\ hashCalls[2].outputLen = 32
    /\ hashCalls[1].digest = hashCalls[2].digest
    /\ Len(hashCalls[1].digest) = 32


(***************************************************************************)
(* yjs-durable-object.ts: the relay.  One object keeps a map from the      *)
(* server end of each accepted WebSocket to its metadata and forwards      *)
(* every message to the other sockets of the sender's room.  The handlers  *)
(* contain no await, so each runs to its end before the next one starts.   *)
(* A socket is the number of the WebSocketPair it came from.               *)
(***************************************************************************)
MaxSockets == 2

\* the defaults of lines 24 and 63, as the strings the code writes
DefaultMaxConnections == <<49, 48, 48, 48>>
DefaultMaxMessageSize == <<49, 48, 52, 56, 53, 55, 54>>
MessageTooBig == 1009
NoSocket == 0

\* a || b for strings: b when a is undefined or empty
OrDefault(value, default) ==
    IF value = Undefined \/ value = <<>> THEN default ELSE value

\* parseInt(str, 10) for a string of decimal digits
RECURSIVE parseInt(_)
parseInt(str) ==
    IF str = <<>> THEN 0
    ELSE 10 * parseInt(SubSeq(str, 1, Len(str) - 1)) + (str[Len(str)] - 48)

\* Map.prototype.set and Map.prototype.delete
MapSet(map, key, value) ==
    [k \in DOMAIN map \cup {key} |-> IF k = key THEN value ELSE map[k]]
MapDelete(map, keys) == [k \in DOMAIN map \ keys |-> map[k]]

Response(status, retryAfter, webSocket) ==
    [status |-> status, retryAfter |-> retryAfter, webSocket |-> webSocket]

fetch_OffByOne(this, request, server) ==
    \* the capacity test lets one more connection in
    LET maxConnections ==
            parseInt(OrDefault(this.env.MAX_CONNECTIONS_PER_ROOM,
                               DefaultMaxConnections))
        last == request.pathname[Len(request.pathname)]
        roomId == IF last = "" THEN "default" ELSE last
        metadata == [roomId |-> roomId, clientId |-> server]
    IN  IF request.upgrade # "websocket"
        THEN [response |-> Response(426, "", NoSocket), accepted |-> {},
              sessions |-> this.sessions]
        ELSE IF Cardinality(DOMAIN this.sessions) > maxConnections
        THEN [response |-> Response(503, "60", NoSocket), accepted |-> {},
              sessions |-> this.sessions]
        ELSE [response |-> Response(101, "", server), accepted |-> {server},
              sessions |-> MapSet(this.sessions, server, metadata)]

\* fetch(request) on the object this = [sessions, env]; server is the pair
\* new WebSocketPair() returns.  request.pathname is url.pathname split at
\* "/", request.upgrade the Upgrade header ("" when there is none).
fetch(this, request, server) ==
    LET maxConnections ==
            parseInt(OrDefault(this.env.MAX_CONNECTIONS_PER_ROOM,
                               DefaultMaxConnections))
        last == request.pathname[Len(request.pathname)]
        roomId == IF last = "" THEN "default" ELSE last
        metadata == [roomId |-> roomId, clientId |-> server]
    IN  IF request.upgrade # "websocket"
        THEN [response |-> Response(426, "", NoSocket), accepted |-> {},
              sessions |-> this.sessions]
        ELSE IF Cardinality(DOMAIN this.sessions) >= maxConnections
        THEN [response |-> Response(503, "60", NoSocket), accepted |-> {},
              sessions |-> this.sessions]
        ELSE [response |-> Response(101, "", server), accepted |-> {server},
              sessions |-> MapSet(this.sessions, server, metadata)]

NotClosed == <<>>

webSocketMessage_NoStateCheck(this, readyStates, ws, message, throwing) ==
    \* readyState is not looked at before send
    LET maxSize ==
            parseInt(OrDefault(this.env.MAX_MESSAGE_SIZE, DefaultMaxMessageSize))
        recipients ==
            {session \in DOMAIN this.sessions :
                /\ session # ws
                /\ this.sessions[session].roomId = this.sessions[ws].roomId}
        failed == recipients \cap throwing
    IN  IF message.size > maxSize
        THEN [sessions |-> this.sessions, closed |-> <<MessageTooBig>>,
              sent |-> {}, failed |-> {}]
        ELSE IF ws \notin DOMAIN this.sessions
        THEN [sessions |-> this.sessions, closed |-> NotClosed,
              sent |-> {}, failed |-> {}]
        ELSE [sessions |-> MapDelete(this.sessions, failed),
              closed |-> NotClosed,
              sent |-> recipients \ failed, failed |-> failed]

webSocketMessage_ForwardFirst(this, readyStates, ws, message, throwing) ==
    \* the size is tested after the message was forwarded
    LET maxSize ==
            parseInt(OrDefault(this.env.MAX_MESSAGE_SIZE, DefaultMaxMessageSize))
        recipients ==
            IF ws \notin DOMAIN this.sessions THEN {}
            ELSE {session \in DOMAIN this.sessions :
                    /\ session # ws
                    /\ this.sessions[session].roomId = this.sessions[ws].roomId
                    /\ readyStates[session] = "OPEN"}
        failed == recipients \cap throwing
    IN  [sessions |-> MapDelete(this.sessions, failed),
         closed |-> IF message.size > maxSize
                    THEN <<MessageTooBig>> ELSE NotClosed,
         sent |-> recipients \ failed, failed |-> failed]

\* webSocketMessage(ws, message); readyStates is the readyState of every
\* socket and throwing the sockets whose send throws.  The loop of lines
\* 78-95 visits every entry of the map once; deleting the entry it is at
\* does not disturb the rest.
webSocketMessage(this, readyStates, ws, message, throwing) ==
    LET maxSize ==
            parseInt(OrDefault(this.env.MAX_MESSAGE_SIZE, DefaultMaxMessageSize))
        recipients ==
            {session \in DOMAIN this.sessions :
                /\ session # ws
                /\ this.sessions[session].roomId = this.sessions[ws].roomId
                /\ readyStates[session] = "OPEN"}
        failed == recipients \cap throwing
    IN  IF message.size > maxSize
        THEN [sessions |-> this.sessions, closed |-> <<MessageTooBig>>,
              sent |-> {}, failed |-> {}]
        ELSE IF ws \notin DOMAIN this.sessions
        THEN [sessions |-> this.sessions, closed |-> NotClosed,
              sent |-> {}, failed |-> {}]
        ELSE [sessions |-> MapDelete(this.sessions, failed),
              closed |-> NotClosed,
              sent |-> recipients \ failed, failed |-> failed]

\* what sessions.get(ws) returned, as the handlers log it
Logged(this, ws) ==
    IF ws \in DOMAIN this.sessions THEN <<this.sessions[ws]>> ELSE <<>>

webSocketClose(this, ws) ==
    [sessions |-> MapDelete(this.sessions, {ws}), logged |-> Logged(this, ws)]

webSocketError_LogOnly(this, ws) ==
    \* the error is logged and the entry stays
    [sessions |-> this.sessions, logged |-> Logged(this, ws)]

webSocketError(this, ws) ==
    [sessions |-> MapDelete(this.sessions, {ws}), logged |-> Logged(this, ws)]

(***************************************************************************)
(* The relay's inputs.                                                     *)
(***************************************************************************)
\* env as wrangler sets it: unset, or decimal strings ("1", "2" connections;
\* "4" bytes)
Envs ==
    {NoEnv,
     [MAX_CONNECTIONS_PER_ROOM |-> <<49>>, MAX_MESSAGE_SIZE |-> <<52>>],
     [MAX_CONNECTIONS_PER_ROOM |-> <<50>>, MAX_MESSAGE_SIZE |-> <<52>>]}

\* upgrade requests for /room/a and /room/, and a request without the
\* Upgrade header
Requests ==
    {[pathname |-> <<"", "room", "a">>, upgrade |-> "websocket"],
     [pathname |-> <<"", "room", "">>, upgrade |-> "websocket"],
     [pathname |-> <<"", "room", "a">>, upgrade |-> ""]}

\* messages of the largest size the configuration lets through and of one
\* unit more
MaxMessageSize ==
    parseInt(OrDefault(env.MAX_MESSAGE_SIZE, DefaultMaxMessageSize))
RelayMessages == [size : {MaxMessageSize, MaxMessageSize + 1}]

This == [sessions |-> sessions, env |-> env]
Created == 1..Len(sockets)
ReadyStates == [s \in Created |-> sockets[s].readyState]
\* no send throws, or the send to one OPEN socket does
ThrowingSends ==
    {{}} \cup {{s} : s \in {t \in Created : sockets[t].readyState = "OPEN"}}

Call(handler, ws) ==
    [handler |-> handler, ws |-> ws, size |-> 0, upgrade |-> "",
     response |-> Response(0, "", NoSocket), closed |-> NotClosed,
     sent |-> {}, failed |-> {}, logged |-> <<>>]

(***************************************************************************)
(* The relay's state machine.  sockets[s] is what the runtime knows of     *)
(* socket s: the room of the request that created it, its readyState and   *)
(* the events it delivered.  lastCall is the last call and its effects.    *)
(***************************************************************************)
RelayInit ==
    /\ AeadIdle
    /\ SignerIdle
    /\ IdIdle
    /\ CodecIdle
    /\ HashIdle
    /\ sessions = NoSessions
    /\ sockets = <<>>
    /\ env \in Envs
    /\ lastCall = Call("constructor", NoSocket)

\* the runtime evicts the idle object and constructs it again for the next
\* event; the sockets handed to state.acceptWebSocket stay connected
Constructor ==
    /\ Len(sockets) > 0
    /\ sessions # NoSessions
    /\ sessions' = NoSessions
    /\ lastCall' = Call("constructor", NoSocket)
    /\ UNCHANGED <<sockets, env, aeadVars, signerVars, idVars, codecVars, hashVars>>

Fetch ==
    /\ \E request \in Requests :
        LET server == Len(sockets) + 1
            result == fetch(This, request, server)
        IN  /\ result.accepted # {} => Len(sockets) < MaxSockets
            /\ sessions' = result.sessions
            /\ sockets' =
                 IF result.accepted = {} THEN sockets
                 ELSE Append(sockets,
                             [roomId |-> result.sessions[server].roomId,
                              readyState |-> "OPEN",
                              closeEvent |-> FALSE, errorEvent |-> FALSE])
            /\ lastCall' = [Call("fetch", NoSocket) EXCEPT
                              !.upgrade = request.upgrade,
                              !.response = result.response]
    /\ UNCHANGED <<env, aeadVars, signerVars, idVars, codecVars, hashVars>>

WebSocketMessage ==
    \E ws \in Created, message \in RelayMessages, throwing \in ThrowingSends :
        LET result == webSocketMessage(This, ReadyStates, ws, message, throwing)
        IN  /\ ~sockets[ws].closeEvent
            /\ sessions' = result.sessions
            /\ sockets' =
                 IF result.closed # NotClosed /\ sockets[ws].readyState = "OPEN"
                 THEN [sockets EXCEPT ![ws].readyState = "CLOSING"]
                 ELSE sockets
            /\ lastCall' = [Call("webSocketMessage", ws) EXCEPT
                              !.size = message.size,
                              !.closed = result.closed,
                              !.sent = result.sent,
                              !.failed = result.failed]
            /\ UNCHANGED <<env, aeadVars, signerVars, idVars, codecVars, hashVars>>

WebSocketClose ==
    \E ws \in Created :
        LET result == webSocketClose(This, ws)
        IN  /\ ~sockets[ws].closeEvent
            /\ sessions' = result.sessions
            /\ sockets' = [sockets EXCEPT ![ws].readyState = "CLOSED",
                                          ![ws].closeEvent = TRUE]
            /\ lastCall' = [Call("webSocketClose", ws) EXCEPT
                              !.logged = result.logged]
            /\ UNCHANGED <<env, aeadVars, signerVars, idVars, codecVars, hashVars>>

WebSocketError ==
    \E ws \in Created :
        LET result == webSocketError(This, ws)
        IN  /\ ~sockets[ws].closeEvent
            /\ ~sockets[ws].errorEvent
            /\ sessions' = result.sessions
            /\ sockets' = [sockets EXCEPT ![ws].errorEvent = TRUE]
            /\ lastCall' = [Call("webSocketError", ws) EXCEPT
                              !.logged = result.logged]
            /\ UNCHANGED <<env, aeadVars, signerVars, idVars, codecVars, hashVars>>

RelayNext ==
    \/ Constructor
    \/ Fetch
    \/ WebSocketMessage
    \/ WebSocketClose
    \/ WebSocketError

RelaySpec == RelayInit /\ [][RelayNext]_vars

\* the same object when the runtime never evicts it
HandlersNext ==
    \/ Fetch
    \/ WebSocketMessage
    \/ WebSocketClose
    \/ WebSocketError

HandlersSpec == RelayInit /\ [][HandlersNext]_vars


(***************************************************************************)
(* The relay's claims.                                                     *)
(***************************************************************************)
Tracked == DOMAIN sessions
MaxConnections ==
    parseInt(OrDefault(env.MAX_CONNECTIONS_PER_ROOM, DefaultMaxConnections))
Attempted(call) == call.sent \cup call.failed

\* the socket was accepted and has delivered neither a close nor an error
\* event
Connected(s) ==
    s \in Created /\ ~sockets[s].closeEvent /\ ~sockets[s].errorEvent

\* C24: the number of tracked sessions never exceeds the configured maximum
\* (1000 when unset), and an upgrade request arriving when that many are
\* tracked is answered with 503 and Retry-After, accepts no socket and
\* leaves the sessions as they were.
C24_Capacity ==
    [][/\ Cardinality(DOMAIN sessions') <= MaxConnections
       /\ (/\ lastCall'.handler = "fetch"
           /\ lastCall'.upgrade = "websocket"
           /\ Cardinality(Tracked) >= MaxConnections)
             => /\ lastCall'.response = Response(503, "60", NoSocket)
                /\ sessions' = sessions
                /\ sockets' = sockets]_vars

C24_Witness ==
    /\ lastCall.handler = "fetch"
    /\ lastCall.response.status = 503
    /\ lastCall.response.retryAfter = "60"
    /\ Cardinality(Tracked) = MaxConnections
    /\ Len(sockets) = MaxConnections

\* C25: a message is sent only to sockets that were tracked when it arrived,
\* are not its sender, have the sender's roomId and were OPEN; a message
\* from a socket that is not tracked is sent to nobody.
C25_ForwardingSafety ==
    [][lastCall'.handler = "webSocketMessage"
         => /\ \A s \in Attempted(lastCall') :
                  /\ s \in Tracked
                  /\ s # lastCall'.ws
                  /\ lastCall'.ws \in Tracked
                  /\ sessions[s].roomId = sessions[lastCall'.ws].roomId
                  /\ sockets[s].readyState = "OPEN"
            /\ lastCall'.ws \notin Tracked => Attempted(lastCall') = {}]_vars

C25_Witness ==
    /\ lastCall.handler = "webSocketMessage"
    /\ lastCall.ws \in Tracked
    /\ lastCall.sent = Tracked \ {lastCall.ws}
    /\ lastCall.sent # {}

\* C26: a message larger than the configured maximum (1048576 when unset)
\* closes its sender with code 1009, is sent to nobody and leaves the
\* sessions as they were.
C26_Oversized ==
    [][(lastCall'.handler = "webSocketMessage"
          /\ lastCall'.size > MaxMessageSize)
         => /\ lastCall'.closed = <<MessageTooBig>>
            /\ Attempted(lastCall') = {}
            /\ sessions' = sessions]_vars

C26_Witness ==
    /\ lastCall.handler = "webSocketMessage"
    /\ lastCall.size > MaxMessageSize
    /\ lastCall.closed = <<MessageTooBig>>
    /\ lastCall.sent = {}
    /\ lastCall.ws \in Tracked
    /\ sockets[lastCall.ws].readyState = "CLOSING"
    /\ \E s \in Tracked \ {lastCall.ws} :
          /\ sessions[s].roomId = sessions[lastCall.ws].roomId
          /\ sockets[s].readyState = "OPEN"

\* C27: a message within the size limit from a connected socket is sent to
\* every other connected, OPEN socket of its room: each of them saw a send,
\* whether that send succeeded or threw.
C27_RelaysToAll ==
    (/\ lastCall.handler = "webSocketMessage"
     /\ lastCall.size <= MaxMessageSize
     /\ Connected(lastCall.ws))
        => \A s \in Created \ {lastCall.ws} :
              (/\ Connected(s)
               /\ sockets[s].roomId = sockets[lastCall.ws].roomId
               /\ sockets[s].readyState = "OPEN")
                  => s \in Attempted(lastCall)

\* C28: webSocketClose and webSocketError leave the socket untracked and
\* every other entry as it was, one entry fewer when the socket was tracked
\* and nothing changed when it was not; a socket that delivered a close or
\* an error event is not tracked again and no message is sent to it.
C28_SessionRemoval ==
    [][/\ lastCall'.handler \in {"webSocketClose", "webSocketError"}
            => /\ DOMAIN sessions' = Tracked \ {lastCall'.ws}
               /\ \A s \in DOMAIN sessions' : sessions'[s] = sessions[s]
               /\ lastCall'.ws \in Tracked
                     => Cardinality(DOMAIN sessions') = Cardinality(Tracked) - 1
               /\ lastCall'.ws \notin Tracked => sessions' = sessions
       /\ lastCall'.handler = "webSocketMessage"
            => \A s \in Attempted(lastCall') : Connected(s)
       /\ \A s \in DOMAIN sessions' :
             ~sockets'[s].closeEvent /\ ~sockets'[s].errorEvent]_vars

C28_Witness ==
    /\ lastCall.handler = "webSocketError"
    /\ lastCall.logged # <<>>
    /\ lastCall.ws \notin Tracked
    /\ sockets[lastCall.ws].errorEvent
    /\ Tracked # {}

====
